---- MODULE Spec2Model ----
(***************************************************************************)
(* Growth Matrix (src/main.py): the World of boxes, the click handler, the *)
(* per-frame update (end_level, main) and the push / collision simulation. *)
(*                                                                         *)
(* Numbers.  Sizes, centers and movements are Python numbers; the code     *)
(* adds SCALE_SPEED = 0.2 and SCALE_SPEED/2 = 0.1 to them as IEEE-754      *)
(* doubles and compares the results exactly (==, <, >=), so the rounding   *)
(* of every addition is part of the behaviour.  Every value the program    *)
(* computes is an integer multiple of 2^-56 of magnitude below 16, so a    *)
(* number is modelled exactly as <<s, h, l>>: sign s in {1,-1} and         *)
(* magnitude (h * 2^30 + l) * 2^-56, with 0 <= l < 2^30.  An addition      *)
(* computes the exact sum and rounds it to 53 significant bits, ties to    *)
(* even, as the hardware does.                                             *)
(*                                                                         *)
(* Rendering (points, projected_points, vertices, lines, faces) is output  *)
(* only and is not part of the state; the faces hit by the mouse are an    *)
(* input of the click.                                                     *)
(***************************************************************************)
EXTENDS Integers, Sequences, FiniteSets, TLC

\* ------------------------------------------------------------ bounds ----
\* largest number of boxes in the free cells of the small level grids
MaxBoxes == 3
\* longest run of blue boxes in the line levels
MaxChain == 4
\* largest number of boxes whose faces are under the mouse at a click
MaxHit == 2

\* ----------------------------------------------------- Python numbers ----
LimbBase == 1073741824
OneHi == 67108864
HalfHi == 33554432

\* the float (or int) of integer value n
FInt(n) == IF n < 0 THEN <<-1, (-n) * OneHi, 0>> ELSE <<1, n * OneHi, 0>>

Zero == FInt(0)
One == FInt(1)

\* unit in the last place, in units of 2^-56, of a magnitude with high limb h
Ulp(h) ==
    IF h < 8388608 THEN 1
    ELSE IF h < 16777216 THEN 2
    ELSE IF h < 33554432 THEN 4
    ELSE IF h < 67108864 THEN 8
    ELSE IF h < 134217728 THEN 16
    ELSE IF h < 268435456 THEN 32
    ELSE IF h < 536870912 THEN 64
    ELSE 128

\* round the exact magnitude <<h, l>> to the nearest double, ties to even
\* d units of q kept and a remainder r dropped: TRUE when that rounds up
RoundsUp(d, r, q) == (2 * r > q) \/ (2 * r = q /\ (d \div q) % 2 = 1)

Carry(h, l) == IF l >= LimbBase THEN <<h + 1, l - LimbBase>> ELSE <<h, l>>

RoundAt(h, l, q) ==
    Carry(h, IF RoundsUp(l - (l % q), l % q, q) THEN l - (l % q) + q ELSE l - (l % q))

RoundMag(h, l) == RoundAt(h, l, Ulp(h))

MagLt(a, b) == a[2] < b[2] \/ (a[2] = b[2] /\ a[3] < b[3])

MagAdd(a, b) == Carry(a[2] + b[2], a[3] + b[3])

\* a - b in magnitude, for magnitude of a >= magnitude of b
MagSub(a, b) ==
    IF a[3] >= b[3] THEN <<a[2] - b[2], a[3] - b[3]>>
    ELSE <<a[2] - b[2] - 1, a[3] + LimbBase - b[3]>>

Signed(s, m) == IF m[1] = 0 /\ m[2] = 0 THEN <<1, 0, 0>> ELSE <<s, m[1], m[2]>>

\* a + b as Python computes it on doubles
Rounded(s, m) == Signed(s, RoundMag(m[1], m[2]))

FAdd(a, b) ==
    IF a[1] = b[1] THEN Rounded(a[1], MagAdd(a, b))
    ELSE IF MagLt(a, b) THEN Rounded(b[1], MagSub(b, a))
    ELSE Rounded(a[1], MagSub(a, b))

FNeg(a) == Signed(-a[1], <<a[2], a[3]>>)

\* a < b
FLt(a, b) ==
    IF a[1] # b[1] THEN a[1] < b[1]
    ELSE IF a[1] = 1 THEN MagLt(a, b) ELSE MagLt(b, a)

FGt(a, b) == FLt(b, a)
FGe(a, b) == ~FLt(a, b)

\* round(a): the nearest integer, halves to the even one
\* ip the integer part of a magnitude, fh and fl the limbs of its fraction
NearestInt(ip, fh, fl) ==
    IF \/ fh > HalfHi
       \/ fh = HalfHi /\ fl > 0
       \/ fh = HalfHi /\ fl = 0 /\ ip % 2 = 1
    THEN ip + 1 ELSE ip

PyRound(a) == FInt(a[1] * NearestInt(a[2] \div OneHi, a[2] % OneHi, a[3]))

\* ---------------------------------------------------------- constants ----
TOTAL_LEVELS == 10
\* the base size create_world passes to create_level
base_x == 9
base_z == 9
\* 3.0
SCALE_MAX == FInt(3)
\* 0.2 = 0x1.999999999999ap-3
SCALE_SPEED == <<1, 13421772, 858993460>>
\* a / 2, exact for the values halved here (their last bit is clear)
FHalf(a) == <<a[1], a[2] \div 2, (a[3] + (a[2] % 2) * LimbBase) \div 2>>

\* ------------------------------------------------------------- boxes ----
\* a Box (dataclass Box), without its rendered DesignerObjects
create_box(size, position, type) ==
    [color |-> IF type = "base" THEN "white" ELSE type,
     size |-> size, center |-> position,
     is_moving |-> FALSE, movement |-> <<Zero, Zero, Zero>>]

\* box.size += scale, box.center[1] -= scale[1]/2
scale_points(box, scale) ==
    [box EXCEPT !.size = <<FAdd(box.size[1], scale[1]),
                           FAdd(box.size[2], scale[2]),
                           FAdd(box.size[3], scale[3])>>,
                !.center = <<box.center[1],
                             FAdd(box.center[2], FNeg(FHalf(scale[2]))),
                             box.center[3]>>]

\* ------------------------------------------------------------ levels ----
\* Level data (levels.change_level) is a grid of characters, level[1] being
\* the first row of the data.  Three families of grids are explored.
Kinds == {"r", "w", "b", "g"}

\* (1) every grid of 2 rows and 3 columns that has at most MaxBoxes boxes in
\* its first two columns and one green box in the third
GridLevels ==
    { [i \in 1..2 |-> [j \in 1..3 |->
          IF j = 3 THEN (IF i = 2 THEN "g" ELSE " ") ELSE f[<<i, j>>]]] :
      f \in { g \in [(1..2) \X (1..2) -> Kinds \cup {" "}] :
                Cardinality({c \in DOMAIN g : g[c] # " "}) <= MaxBoxes } }

Reversed(row) == [j \in 1..Len(row) |-> row[Len(row) + 1 - j]]
Transposed(lv) == [j \in 1..Len(lv[1]) |-> [i \in 1..Len(lv) |-> lv[i][j]]]

\* (2) a red box, a run of n blue boxes next to it, one cell of any content
\* and one cell that is empty or white, along x or z and in either direction;
\* a second line holds one green box beside the red box
LineRow(n, t1, t2) ==
    [j \in 1..(n + 3) |-> IF j = 1 THEN "r" ELSE IF j <= n + 1 THEN "b"
                          ELSE IF j = n + 2 THEN t1 ELSE t2]

SpareRow(n) == [j \in 1..(n + 3) |-> IF j = 1 THEN "g" ELSE " "]

Mirrored(lv) == [i \in 1..Len(lv) |-> Reversed(lv[i])]

Orientations(lv) == {lv, Mirrored(lv), Transposed(lv), Transposed(Mirrored(lv))}

LineLevels ==
    UNION { Orientations(<<LineRow(n, t1, t2), SpareRow(n)>>) :
            n \in 0..MaxChain, t1 \in Kinds \cup {" "}, t2 \in {" ", "w"} }

\* (3) a run of six blue boxes beside a red box, two more red boxes below the
\* run and one or two green boxes above it
StackLevels ==
    { [i \in 1..3 |-> [j \in 1..9 |->
          IF i = 1 THEN (IF j = 5 \/ (two /\ j = 9) THEN "g" ELSE " ")
          ELSE IF i = 2 THEN (IF j = 1 THEN "r" ELSE IF j <= 7 THEN "b" ELSE " ")
          ELSE (IF j = 4 \/ j = 5 THEN "r" ELSE " ")]] : two \in BOOLEAN }

\* (4) a red box, a blue box next to it, a green box in the next cell and a
\* second red box next to that cell, on the line or beside it; a second green
\* box stays empty
TargetLevels ==
    Orientations(<< <<"r", "b", "g", "r">>, <<"g", " ", " ", " ">> >>)
        \cup Orientations(<< <<"r", "b", "g", " ">>, <<"g", " ", "r", " ">> >>)

Levels == GridLevels \cup LineLevels \cup StackLevels \cup TargetLevels

\* the cells of a grid in the order create_level visits them: i over
\* reversed(level), j over the row, both counted from 0
ScanOrder(depth, width) ==
    [k \in 1..(depth * width) |-> <<(k - 1) \div width, (k - 1) % width>>]

\* a variant of CharAt that reads the rows in the order of the data
CharAtUnreversed(level, c) == level[c[1] + 1][c[2] + 1]

CharAt(level, c) == level[Len(level) - c[1]][c[2] + 1]

\* made with one box of the type appended for every cell <<i, j>> of cells
RECURSIVE Appended(_, _, _, _, _)
Appended(made, cells, bx, bz, type) ==
    IF cells = <<>> THEN made
    ELSE Appended(Append(made,
                         create_box(<<One, One, One>>,
                                    <<FInt(Head(cells)[2] - (bx \div 2)), Zero,
                                      FInt(Head(cells)[1] - (bz \div 2))>>, type)),
                  Tail(cells), bx, bz, type)

\* the collection create_level builds for a character
BoxesOf(level, bx, bz, character, type) ==
    Appended(<<>>, SelectSeq(ScanOrder(Len(level), Len(level[1])),
                             LAMBDA c : CharAt(level, c) = character),
             bx, bz, type)

\* ------------------------------------------------------------- state ----
VARIABLES
    level,                         \* the grid change_level(level_number) returns
    scene,                         \* the scene on show
    level_number, completed_levels,
    base, boxes,                   \* boxes = <<red, white, blue, green>>
    box_render_order,              \* sequence of box references
    angle,                         \* <<pitch class, yaw class>>
    pan_pos, is_panning, is_clicking_interactable,
    scaled_up_red_box, previously_scaled_up_red_box,   \* index of a red box, or None
    is_scaling,
    win                            \* what detect_win returned in the last frame

vars == <<level, scene, level_number, completed_levels, base, boxes,
          box_render_order, angle, pan_pos, is_panning,
          is_clicking_interactable, scaled_up_red_box,
          previously_scaled_up_red_box, is_scaling, win>>

None == 0
\* world.boxes[0..3] of the code are boxes[1..4] here
RED == 1
WHITE == 2
BLUE == 3
GREEN == 4
\* a reference to a box: <<collection, index>>; <<0, 0>> is world.base
BaseRef == <<0, 0>>
Refs(bxs) == UNION { {<<t, i>> : i \in 1..Len(bxs[t])} : t \in 1..4 }
BoxAt(b, bxs, r) == IF r = BaseRef THEN b ELSE bxs[r[1]][r[2]]

\* angle classes.  Every test of the code compares angle % (2*pi) with a
\* multiple of pi/4: yaw class 2k is the angle k*pi/4 exactly, class 2k+1 the
\* open interval above it; pitch class 1 is (0, pi), 2 is pi, 3 is (pi, 2*pi)
InitialAngle == <<1, 1>>

\* a variant of create_level that reads every row from its end
create_level_mirrored(lv, bx, bz) ==
    [base |-> create_box(<<FInt(bx), One, FInt(bz)>>, <<Zero, One, Zero>>, "base"),
     boxes |-> <<BoxesOf(Mirrored(lv), bx, bz, "r", "red"),
                 BoxesOf(Mirrored(lv), bx, bz, "w", "white"),
                 BoxesOf(Mirrored(lv), bx, bz, "b", "blue"),
                 BoxesOf(Mirrored(lv), bx, bz, "g", "green")>>,
     box_render_order |-> <<>>,
     angle |-> InitialAngle,
     pan_pos |-> <<0, 0>>,
     is_panning |-> FALSE,
     is_clicking_interactable |-> FALSE,
     scaled_up_red_box |-> None,
     previously_scaled_up_red_box |-> None,
     is_scaling |-> FALSE]

\* the World create_level builds
create_level(lv, bx, bz) ==
    [base |-> create_box(<<FInt(bx), One, FInt(bz)>>, <<Zero, One, Zero>>, "base"),
     boxes |-> <<BoxesOf(lv, bx, bz, "r", "red"), BoxesOf(lv, bx, bz, "w", "white"),
                 BoxesOf(lv, bx, bz, "b", "blue"), BoxesOf(lv, bx, bz, "g", "green")>>,
     box_render_order |-> <<>>,
     angle |-> InitialAngle,
     pan_pos |-> <<0, 0>>,
     is_panning |-> FALSE,
     is_clicking_interactable |-> FALSE,
     scaled_up_red_box |-> None,
     previously_scaled_up_red_box |-> None,
     is_scaling |-> FALSE]

\* when('starting: game', create_world): a fresh World for the chosen level
StartGame(lv) ==
    LET w == create_level(lv, base_x, base_z)
    IN  /\ base = w.base
        /\ boxes = w.boxes
        /\ box_render_order = w.box_render_order
        /\ angle = w.angle
        /\ pan_pos = w.pan_pos
        /\ is_panning = w.is_panning
        /\ is_clicking_interactable = w.is_clicking_interactable
        /\ scaled_up_red_box = w.scaled_up_red_box
        /\ previously_scaled_up_red_box = w.previously_scaled_up_red_box
        /\ is_scaling = w.is_scaling

\* the game scene of a level has just started
Init ==
    /\ level \in Levels
    /\ scene = "game"
    /\ level_number = 0
    /\ completed_levels = [i \in 0..(TOTAL_LEVELS - 1) |-> FALSE]
    /\ StartGame(level)
    /\ win = FALSE

\* ------------------------------------------------- collision probing ----
\* the boxes the probe looks at, in the order it visits them
Probed(bxs) == bxs[RED] \o bxs[WHITE] \o bxs[BLUE]

\* indices into Probed of the boxes next to a box centred at c
Neighbours(bxs, c, axis, direction) ==
    LET other_axis == IF axis = 0 THEN 2 ELSE 0
        P == Probed(bxs)
    IN  { k \in 1..Len(P) :
            /\ c[axis + 1] = FAdd(P[k].center[axis + 1], FInt(direction))
            /\ c[other_axis + 1] = P[k].center[other_axis + 1] }

Min(S) == CHOOSE m \in S : \A n \in S : m <= n

\* check_box_collision(world, checked_box, axis, direction), c the center of
\* checked_box: TRUE when there is no collision
RECURSIVE check_box_collision(_, _, _, _)

\* a variant of Collides that does not walk on past a blue box
CollidesAtOnce(bxs, box, axis, direction) ==
    IF box.color = "white" \/ box.color = "red" THEN FALSE ELSE TRUE

\* the probe has found box next to the checked box
Collides(bxs, box, axis, direction) ==
    IF box.color = "white" \/ box.color = "red" THEN FALSE
    ELSE check_box_collision(bxs, box.center, axis, direction)

\* N the neighbours of the checked box: the first of them decides
FirstOf(bxs, N, axis, direction) ==
    IF N = {} THEN TRUE ELSE Collides(bxs, Probed(bxs)[Min(N)], axis, direction)

check_box_collision(bxs, c, axis, direction) ==
    FirstOf(bxs, Neighbours(bxs, c, axis, direction), axis, direction)

\* a variant of Directions that lets an axis grow when one of its sides is free
DirectionsEither(bxs, rb) ==
    <<check_box_collision(bxs, rb.center, 0, 1) \/ check_box_collision(bxs, rb.center, 0, -1),
      TRUE,
      check_box_collision(bxs, rb.center, 2, 1) \/ check_box_collision(bxs, rb.center, 2, -1)>>

\* directions, as main computes them for the scaled up red box
Directions(bxs, rb) ==
    <<check_box_collision(bxs, rb.center, 0, 1) /\ check_box_collision(bxs, rb.center, 0, -1),
      TRUE,
      check_box_collision(bxs, rb.center, 2, 1) /\ check_box_collision(bxs, rb.center, 2, -1)>>

\* ------------------------------------------------------- pushing ----
SetMovement(b, axis, v) ==
    [b EXCEPT !.is_moving = TRUE, !.movement[axis + 1] = v]

\* a variant of PushedByRed that does not look at the size of the red box
PushedByRedAnySize(pb, b) ==
    IF pb.center[1] = b.center[1]
    THEN IF pb.center[3] = FAdd(b.center[3], FInt(-1))
         THEN SetMovement(b, 2, FHalf(SCALE_SPEED))
         ELSE IF pb.center[3] = FAdd(b.center[3], One)
              THEN SetMovement(b, 2, FNeg(FHalf(SCALE_SPEED)))
              ELSE b
    ELSE IF pb.center[3] = b.center[3]
         THEN IF pb.center[1] = FAdd(b.center[1], FInt(-1))
              THEN SetMovement(b, 0, FHalf(SCALE_SPEED))
              ELSE IF pb.center[1] = FAdd(b.center[1], One)
                   THEN SetMovement(b, 0, FNeg(FHalf(SCALE_SPEED)))
                   ELSE b
         ELSE b

\* a blue box that is not moving, seen by a red pushing box
PushedByRed(pb, b) ==
    IF pb.center[1] = b.center[1] /\ FGt(pb.size[3], One)
    THEN IF pb.center[3] = FAdd(b.center[3], FInt(-1))
         THEN SetMovement(b, 2, FHalf(SCALE_SPEED))
         ELSE IF pb.center[3] = FAdd(b.center[3], One)
              THEN SetMovement(b, 2, FNeg(FHalf(SCALE_SPEED)))
              ELSE b
    ELSE IF pb.center[3] = b.center[3] /\ FGt(pb.size[1], One)
         THEN IF pb.center[1] = FAdd(b.center[1], FInt(-1))
              THEN SetMovement(b, 0, FHalf(SCALE_SPEED))
              ELSE IF pb.center[1] = FAdd(b.center[1], One)
                   THEN SetMovement(b, 0, FNeg(FHalf(SCALE_SPEED)))
                   ELSE b
         ELSE b

\* a blue box that is not moving, seen by a blue pushing box: the test along
\* z, then the test along x on the box the first test leaves
PushedAlongZ(pb, b) ==
    IF /\ PyRound(pb.center[1]) = b.center[1]
       /\ \/ PyRound(pb.center[3]) = FAdd(b.center[3], FInt(-1))
          \/ PyRound(pb.center[3]) = FAdd(b.center[3], One)
    THEN SetMovement(b, 2, pb.movement[3])
    ELSE b

PushedAlongX(pb, b) ==
    IF /\ PyRound(pb.center[3]) = b.center[3]
       /\ \/ PyRound(pb.center[1]) = FAdd(b.center[1], FInt(-1))
          \/ PyRound(pb.center[1]) = FAdd(b.center[1], One)
    THEN SetMovement(b, 0, pb.movement[1])
    ELSE b

PushedByBlue(pb, b) == PushedAlongX(pb, PushedAlongZ(pb, b))

\* a blue box b that is not moving, seen by the pushing box pb
Pushed(pb, b) ==
    IF pb.color = "red" THEN PushedByRed(pb, b)
    ELSE IF pb.color = "blue" THEN PushedByBlue(pb, b)
    ELSE b

\* a variant of Stepped that lowers the box as scale_points lowers a red box
SteppedSinking(pb, b, x, z) ==
    IF FGe(pb.size[2], SCALE_MAX) \/ (pb.color = "blue" /\ pb.is_moving = FALSE)
    THEN [b EXCEPT !.is_moving = FALSE,
                   !.movement = <<Zero, Zero, Zero>>,
                   !.center = <<PyRound(x), FAdd(b.center[2], FNeg(FHalf(SCALE_SPEED))),
                                PyRound(z)>>]
    ELSE [b EXCEPT !.center = <<x, FAdd(b.center[2], FNeg(FHalf(SCALE_SPEED))), z>>]

\* a variant of Stepped that stops a box where it is
SteppedUnsnapped(pb, b, x, z) ==
    IF FGe(pb.size[2], SCALE_MAX) \/ (pb.color = "blue" /\ pb.is_moving = FALSE)
    THEN [b EXCEPT !.is_moving = FALSE,
                   !.movement = <<Zero, Zero, Zero>>,
                   !.center = <<x, b.center[2], z>>]
    ELSE [b EXCEPT !.center = <<x, b.center[2], z>>]

\* a variant of Stepped that stops a box and leaves it its movement
SteppedKeepingMovement(pb, b, x, z) ==
    IF FGe(pb.size[2], SCALE_MAX) \/ (pb.color = "blue" /\ pb.is_moving = FALSE)
    THEN [b EXCEPT !.is_moving = FALSE,
                   !.center = <<PyRound(x), b.center[2], PyRound(z)>>]
    ELSE [b EXCEPT !.center = <<x, b.center[2], z>>]

\* a moving blue box taken to x and z, and the stop when the pusher is done
Stepped(pb, b, x, z) ==
    IF FGe(pb.size[2], SCALE_MAX) \/ (pb.color = "blue" /\ pb.is_moving = FALSE)
    THEN [b EXCEPT !.is_moving = FALSE,
                   !.movement = <<Zero, Zero, Zero>>,
                   !.center = <<PyRound(x), b.center[2], PyRound(z)>>]
    ELSE [b EXCEPT !.center = <<x, b.center[2], z>>]

\* a variant of Advance that applies the movement twice
AdvanceTwice(pb, b) ==
    Stepped(pb, b, FAdd(FAdd(b.center[1], b.movement[1]), b.movement[1]),
            FAdd(FAdd(b.center[3], b.movement[3]), b.movement[3]))

\* a blue box that is moving: one step
Advance(pb, b) ==
    Stepped(pb, b, FAdd(b.center[1], b.movement[1]), FAdd(b.center[3], b.movement[3]))

\* A visit of move_blue_box: the pushing box and the visited box before and
\* after; kind "push" when the box was set moving, "step" when a moving box
\* was advanced.  p is the index of the pushing blue box, or None when the
\* pushing box is the growing red box, k the index of the visited box and d
\* the depth of the call.
Visit(kind, p, k, d, pb, b, b1) ==
    [kind |-> kind, p |-> p, k |-> k, depth |-> d,
     pusher |-> pb, before |-> b, after |-> b1]

\* move_blue_box(world, pushing_box) from the k-th blue box on.  st.blue is
\* the blue collection and st.log the visits made so far in this frame, rb the
\* growing red box.
RECURSIVE MoveBlueFrom(_, _, _, _, _)

\* a variant of AfterPush in which a box set moving does not push in its turn
AfterPushFlat(st, rb, p, k, d, pb, b, b1) ==
    MoveBlueFrom([blue |-> [st.blue EXCEPT ![k] = b1],
                  log |-> IF b1.is_moving
                          THEN Append(st.log, Visit("push", p, k, d, pb, b, b1))
                          ELSE st.log],
                 rb, p, k + 1, d)

\* a variant of AfterPush in which a box set moving makes its call twice
AfterPushTwice(st, rb, p, k, d, pb, b, b1) ==
    IF b1.is_moving
    THEN MoveBlueFrom(
             MoveBlueFrom(
                 MoveBlueFrom([blue |-> [st.blue EXCEPT ![k] = b1],
                               log |-> Append(st.log, Visit("push", p, k, d, pb, b, b1))],
                              rb, k, 1, d + 1),
                 rb, k, 1, d + 1),
             rb, p, k + 1, d)
    ELSE MoveBlueFrom([blue |-> [st.blue EXCEPT ![k] = b1], log |-> st.log],
                      rb, p, k + 1, d)

\* the k-th box was not moving and is b1 now: when it has been set moving it
\* pushes in its turn, before the loop goes on
AfterPush(st, rb, p, k, d, pb, b, b1) ==
    IF b1.is_moving
    THEN MoveBlueFrom(
             MoveBlueFrom([blue |-> [st.blue EXCEPT ![k] = b1],
                           log |-> Append(st.log, Visit("push", p, k, d, pb, b, b1))],
                          rb, k, 1, d + 1),
             rb, p, k + 1, d)
    ELSE MoveBlueFrom([blue |-> [st.blue EXCEPT ![k] = b1], log |-> st.log],
                      rb, p, k + 1, d)

\* the k-th box was moving and is b1 now
AfterStep(st, rb, p, k, d, pb, b, b1) ==
    MoveBlueFrom([blue |-> [st.blue EXCEPT ![k] = b1],
                  log |-> Append(st.log, Visit("step", p, k, d, pb, b, b1))],
                 rb, p, k + 1, d)

\* a variant of Meets that leaves a purple box where it is
MeetsUnlessPurple(st, rb, p, k, d, pb, b) ==
    IF ~b.is_moving
    THEN IF b.color = "purple"
         THEN AfterPush(st, rb, p, k, d, pb, b, b)
         ELSE AfterPush(st, rb, p, k, d, pb, b, Pushed(pb, [b EXCEPT !.color = "blue"]))
    ELSE AfterStep(st, rb, p, k, d, pb, b, Advance(pb, b))

\* the pushing box pb meets the k-th blue box b
Meets(st, rb, p, k, d, pb, b) ==
    IF ~b.is_moving
    THEN AfterPush(st, rb, p, k, d, pb, b, Pushed(pb, [b EXCEPT !.color = "blue"]))
    ELSE AfterStep(st, rb, p, k, d, pb, b, Advance(pb, b))

MoveBlueFrom(st, rb, p, k, d) ==
    IF k > Len(st.blue) THEN st
    ELSE Meets(st, rb, p, k, d, IF p = None THEN rb ELSE st.blue[p], st.blue[k])

move_blue_box(blue, rb) == MoveBlueFrom([blue |-> blue, log |-> <<>>], rb, None, 1, 1)

\* ------------------------------------------------------- scaling ----
ScaleSpeed(directions) ==
    <<IF directions[1] THEN SCALE_SPEED ELSE Zero, SCALE_SPEED,
      IF directions[3] THEN SCALE_SPEED ELSE Zero>>

\* a variant of ShrinkBy that does not look at the size
ShrinkByAlways(s) == FNeg(SCALE_SPEED)

\* the change of a size component of the previously scaled up red box
ShrinkBy(s) == IF FGt(s, One) THEN FNeg(SCALE_SPEED) ELSE Zero

\* a variant of ScaleDownSpeed that decides by size.y for the three axes
ScaleDownSpeedByHeight(box) ==
    <<ShrinkBy(box.size[2]), ShrinkBy(box.size[2]), ShrinkBy(box.size[2])>>

ScaleDownSpeed(box) ==
    <<ShrinkBy(box.size[1]), ShrinkBy(box.size[2]), ShrinkBy(box.size[3])>>

\* the scaled up red box grows
Grown(red, up, directions) ==
    [red EXCEPT ![up] = scale_points(red[up], ScaleSpeed(directions))]

\* a variant of Shrunk that leaves the previously scaled up red box as it is
NotShrunk(red, prev) == red

\* the previously scaled up red box, when there is one, shrinks
Shrunk(red, prev) ==
    IF prev # None
    THEN [red EXCEPT ![prev] = scale_points(red[prev], ScaleDownSpeed(red[prev]))]
    ELSE red

\* scale_red_box(world, directions): the red collection and is_scaling after it
scale_red_box(red, up, prev, scaling, directions) ==
    IF up # None
    THEN IF FLt(red[up].size[2], SCALE_MAX)
         THEN [red |-> Shrunk(Grown(red, up, directions), prev), is_scaling |-> scaling]
         ELSE [red |-> red, is_scaling |-> FALSE]
    ELSE [red |-> red, is_scaling |-> scaling]

\* ------------------------------------------------------------ winning ----
\* detect_win(world): what it returns and the blue collection it leaves
\* one entry of green_boxes_filled for every green box and blue box of
\* equal center
green_boxes_filled(green, blue) ==
    { <<g, b>> \in (1..Len(green)) \X (1..Len(blue)) :
        blue[b].center = green[g].center }

\* the blue collection once the boxes from the b-th on that are on a green
\* box have been coloured
RECURSIVE Coloured(_, _, _)
Coloured(blue, green, b) ==
    IF b > Len(blue) THEN blue
    ELSE IF \E g \in 1..Len(green) : blue[b].center = green[g].center
         THEN Coloured([blue EXCEPT ![b].color = "purple"], green, b + 1)
         ELSE Coloured(blue, green, b + 1)

detect_win(bxs) ==
    [result |-> Cardinality(green_boxes_filled(bxs[GREEN], bxs[BLUE])) = Len(bxs[GREEN]),
     blue |-> Coloured(bxs[BLUE], bxs[GREEN], 1)]

\* ------------------------------------------------------- render order ----
\* angle[1] % (2*pi) compared with k*pi/4, on the yaw class y
YawGe(y, k) == y >= 2 * k
YawGt(y, k) == y > 2 * k
YawLt(y, k) == y < 2 * k

\* a variant of After that does not break ties on the other axis
AfterOnPrimaryAxis(y, c, rc) ==
    IF YawGe(y, 1) /\ YawLt(y, 3) THEN FGt(c[1], rc[1])
    ELSE IF YawGe(y, 3) /\ YawLt(y, 5) THEN FGt(c[3], rc[3])
    ELSE IF YawGe(y, 5) /\ YawLt(y, 7) THEN FLt(c[1], rc[1])
    ELSE FLt(c[3], rc[3])

\* TRUE when a box centred at c goes after an already placed box centred at rc
After(y, c, rc) ==
    IF YawGe(y, 1) /\ YawLt(y, 3)
    THEN \/ FGt(c[1], rc[1])
         \/ /\ c[1] = rc[1]
            /\ IF YawGt(y, 2) THEN FGt(c[3], rc[3]) ELSE FLt(c[3], rc[3])
    ELSE IF YawGe(y, 3) /\ YawLt(y, 5)
    THEN \/ FGt(c[3], rc[3])
         \/ /\ c[3] = rc[3]
            /\ IF YawGt(y, 4) THEN FLt(c[1], rc[1]) ELSE FGt(c[1], rc[1])
    ELSE IF YawGe(y, 5) /\ YawLt(y, 7)
    THEN \/ FLt(c[1], rc[1])
         \/ /\ c[1] = rc[1]
            /\ IF YawGt(y, 6) THEN FLt(c[3], rc[3]) ELSE FGt(c[3], rc[3])
    ELSE \/ FLt(c[3], rc[3])
         \/ /\ c[3] = rc[3]
            /\ IF YawLt(y, 2) THEN FGt(c[1], rc[1]) ELSE FLt(c[1], rc[1])

\* a variant of InsertAt that puts e in the place of the element at index i
InsertAtReplacing(s, i, e) ==
    IF i < Len(s) THEN SubSeq(s, 1, i) \o <<e>> \o SubSeq(s, i + 2, Len(s))
    ELSE Append(s, e)

InsertAt(s, i, e) == SubSeq(s, 1, i) \o <<e>> \o SubSeq(s, i + 1, Len(s))

\* every box of the four collections, in the order the loops visit them
AllRefs(bxs) ==
    [k \in 1..(Len(bxs[1]) + Len(bxs[2]) + Len(bxs[3]) + Len(bxs[4])) |->
        IF k <= Len(bxs[1]) THEN <<1, k>>
        ELSE IF k <= Len(bxs[1]) + Len(bxs[2]) THEN <<2, k - Len(bxs[1])>>
        ELSE IF k <= Len(bxs[1]) + Len(bxs[2]) + Len(bxs[3])
             THEN <<3, k - Len(bxs[1]) - Len(bxs[2])>>
             ELSE <<4, k - Len(bxs[1]) - Len(bxs[2]) - Len(bxs[3])>>]

RECURSIVE InsertBoxes(_, _, _, _)
InsertBoxes(order, todo, bxs, y) ==
    IF todo = <<>> THEN order
    ELSE LET c == BoxAt(<<>>, bxs, Head(todo)).center
             i == Cardinality({ k \in 1..Len(order) :
                                  After(y, c, BoxAt(<<>>, bxs, order[k]).center) })
         IN  InsertBoxes(InsertAt(order, i, Head(todo)), Tail(todo), bxs, y)

\* calculate_render_order(world): the new box_render_order
calculate_render_order(bxs, ang) ==
    LET sorted == InsertBoxes(<<>>, AllRefs(bxs), bxs, ang[2])
        x == ang[1]
        y == ang[2]
    IN  IF x > 2 /\ (y <= 4 \/ y > 12) THEN Append(sorted, BaseRef)
        ELSE IF x < 2 /\ (y > 4 /\ y < 12) THEN Append(sorted, BaseRef)
        ELSE <<BaseRef>> \o sorted

\* ------------------------------------------------------------ clicking ----
\* the box red_box_interaction acts on when the mouse touches faces of the
\* boxes in hit (a non-empty set of references)
closest_clicked(bxs, order, hit) ==
    LET boxes_clicked == SelectSeq(AllRefs(bxs), LAMBDA r : r \in hit)
        drawn == { k \in 1..Len(order) : order[k] \in hit }
    IN  IF drawn = {} THEN boxes_clicked[1]
        ELSE order[CHOOSE k \in drawn : \A n \in drawn : n <= k]

\* the sets of boxes a click can hit
Hits(bxs) == { h \in SUBSET Refs(bxs) : Cardinality(h) <= MaxHit }

\* a variant of ClickedOn that does not look at is_scaling
ClickedOnAnyTime(w, front, box) ==
    IF box.color = "red"
    THEN IF box.size[2] = One /\ front[2] # w.scaled_up_red_box
         THEN [is_clicking_interactable |-> TRUE,
               scaled_up_red_box |-> front[2],
               previously_scaled_up_red_box |-> w.scaled_up_red_box,
               is_scaling |-> TRUE]
         ELSE [w EXCEPT !.is_clicking_interactable = FALSE]
    ELSE w

\* what a click on the box front does: w holds is_clicking_interactable,
\* scaled_up_red_box, previously_scaled_up_red_box and is_scaling
ClickedOn(w, front, box) ==
    IF box.color = "red" /\ ~w.is_scaling
    THEN IF box.size[2] = One /\ front[2] # w.scaled_up_red_box
         THEN [is_clicking_interactable |-> TRUE,
               scaled_up_red_box |-> front[2],
               previously_scaled_up_red_box |-> w.scaled_up_red_box,
               is_scaling |-> TRUE]
         ELSE [w EXCEPT !.is_clicking_interactable = FALSE]
    ELSE w

\* red_box_interaction(world) when the mouse touches faces of the boxes in hit
red_box_interaction(w, b, bxs, order, hit) ==
    IF hit # {}
    THEN ClickedOn(w, closest_clicked(bxs, order, hit),
                   BoxAt(b, bxs, closest_clicked(bxs, order, hit)))
    ELSE [w EXCEPT !.is_clicking_interactable = FALSE]

\* the fields of the World that red_box_interaction writes
Selection ==
    [is_clicking_interactable |-> is_clicking_interactable,
     scaled_up_red_box |-> scaled_up_red_box,
     previously_scaled_up_red_box |-> previously_scaled_up_red_box,
     is_scaling |-> is_scaling]

Select(w) ==
    /\ is_clicking_interactable' = w.is_clicking_interactable
    /\ scaled_up_red_box' = w.scaled_up_red_box
    /\ previously_scaled_up_red_box' = w.previously_scaled_up_red_box
    /\ is_scaling' = w.is_scaling

\* when('clicking: game', red_box_interaction)
Click(hit) ==
    /\ scene = "game"
    /\ Select(red_box_interaction(Selection, base, boxes, box_render_order, hit))
    /\ UNCHANGED <<level, scene, level_number, completed_levels, base, boxes,
                   box_render_order, angle, pan_pos, is_panning, win>>

\* -------------------------------------------------------------- frames ----
\* the boxes and is_scaling once the blue boxes are blue1 and scale_red_box
\* has returned s
Scaled(bxs, blue1, s) ==
    [boxes |-> [bxs EXCEPT ![RED] = s.red, ![BLUE] = blue1],
     is_scaling |-> s.is_scaling]

\* a variant of Grow that runs the push and scale step whenever a red box is
\* selected
GrowWhenSelected(bxs, up, prev, scaling) ==
    IF up # None
    THEN Scaled(bxs, move_blue_box(bxs[BLUE], bxs[RED][up]).blue,
                scale_red_box(bxs[RED], up, prev, scaling, Directions(bxs, bxs[RED][up])))
    ELSE [boxes |-> bxs, is_scaling |-> scaling]

\* the part of main that scales and pushes: boxes and is_scaling after it
Grow(bxs, up, prev, scaling) ==
    IF scaling
    THEN Scaled(bxs, move_blue_box(bxs[BLUE], bxs[RED][up]).blue,
                scale_red_box(bxs[RED], up, prev, scaling, Directions(bxs, bxs[RED][up])))
    ELSE [boxes |-> bxs, is_scaling |-> scaling]

\* a variant of end_level that marks the first level whatever level is played
end_level_marking_first(dw) ==
    /\ win' = dw.result
    /\ IF dw.result
       THEN /\ completed_levels' = [completed_levels EXCEPT ![0] = TRUE]
            /\ scene' = "level_menu"
       ELSE UNCHANGED <<completed_levels, scene>>

\* end_level(world), dw being what detect_win returns
end_level(dw) ==
    /\ win' = dw.result
    /\ IF dw.result
       THEN /\ completed_levels' = [completed_levels EXCEPT ![level_number] = TRUE]
            /\ scene' = "level_menu"
       ELSE UNCHANGED <<completed_levels, scene>>

\* the pointer positions the mouse is seen at
Pointers == {<<0, 0>>, <<1, 1>>}
PitchClasses == 1..3
YawClasses == 0..15

\* pan_world(world) when the mouse is at mouse: the angles it can leave.  A
\* move of the mouse along x turns the yaw and a move along y the pitch, by
\* the distance moved over 500; the class an angle ends in depends on that
\* distance.
pan_world(ang, pos, mouse) ==
    { <<pitch, yaw>> :
        pitch \in IF mouse[2] = pos[2] THEN {ang[1]} ELSE PitchClasses,
        yaw \in IF mouse[1] = pos[1] THEN {ang[2]} ELSE YawClasses }

\* the panning part of main
Panning ==
    IF is_panning
    THEN \E mouse \in Pointers :
            /\ angle' \in pan_world(angle, pan_pos, mouse)
            /\ pan_pos' = mouse
    ELSE UNCHANGED <<angle, pan_pos>>

\* main(world) on the boxes bxs, m being what its scaling part leaves
main(bxs, m) ==
    /\ box_render_order' = calculate_render_order(bxs, angle)
    /\ Panning
    /\ boxes' = m.boxes
    /\ is_scaling' = m.is_scaling

\* the two handlers of a frame on the boxes bxs that detect_win leaves.  When
\* end_level changes the scene, main may or may not still run for this frame.
Update(dw, bxs) ==
    /\ end_level(dw)
    /\ \E run_main \in BOOLEAN :
          /\ ~dw.result => run_main
          /\ IF run_main
             THEN main(bxs, Grow(bxs, scaled_up_red_box,
                                 previously_scaled_up_red_box, is_scaling))
             ELSE /\ boxes' = bxs
                  /\ UNCHANGED <<box_render_order, is_scaling, angle, pan_pos>>

\* what detect_win leaves of the boxes
Marked(bxs, dw) == [bxs EXCEPT ![BLUE] = dw.blue]

\* one 'updating: game' event: end_level(world), then main(world)
Frame ==
    /\ scene = "game"
    /\ Update(detect_win(boxes), Marked(boxes, detect_win(boxes)))
    /\ UNCHANGED <<level, level_number, base, is_panning,
                   is_clicking_interactable, scaled_up_red_box,
                   previously_scaled_up_red_box>>

\* when('input.mouse.down: game', pan_start), the mouse being at mouse
pan_start(mouse) ==
    /\ scene = "game"
    /\ IF ~is_clicking_interactable
       THEN /\ pan_pos' = mouse
            /\ is_panning' = TRUE
       ELSE UNCHANGED <<pan_pos, is_panning>>
    /\ UNCHANGED <<level, scene, level_number, completed_levels, base, boxes,
                   box_render_order, angle, is_clicking_interactable,
                   scaled_up_red_box, previously_scaled_up_red_box, is_scaling, win>>

\* when('input.mouse.up: game', pan_end)
pan_end ==
    /\ scene = "game"
    /\ is_panning' = FALSE
    /\ UNCHANGED <<level, scene, level_number, completed_levels, base, boxes,
                   box_render_order, angle, pan_pos, is_clicking_interactable,
                   scaled_up_red_box, previously_scaled_up_red_box, is_scaling, win>>

Next ==
    \/ \E hit \in Hits(boxes) : Click(hit)
    \/ Frame

Spec == Init /\ [][Next]_vars

\* ------------------------------------------------------ the builder ----
\* create_level on every grid of 2 rows and 2 columns over the four box
\* characters, the blank and a character that stands for no box, with the
\* base of create_world and a base of 2 by 1
\* the grids of one row of two characters
RowLevels == { <<row>> : row \in [1..2 -> Kinds \cup {" ", "x"}] }
BuildLevels == [1..2 -> [1..2 -> Kinds \cup {" ", "x"}]] \cup RowLevels
BaseSizes == {<<9, 9>>, <<2, 1>>}

BuildInit ==
    /\ level \in BuildLevels
    /\ scene = "game"
    /\ level_number = 0
    /\ completed_levels = [i \in 0..(TOTAL_LEVELS - 1) |-> FALSE]
    /\ \E size \in BaseSizes :
          LET w == create_level(level, size[1], size[2])
          IN  /\ base = w.base
              /\ boxes = w.boxes
              /\ box_render_order = w.box_render_order
              /\ angle = w.angle
              /\ pan_pos = w.pan_pos
              /\ is_panning = w.is_panning
              /\ is_clicking_interactable = w.is_clicking_interactable
              /\ scaled_up_red_box = w.scaled_up_red_box
              /\ previously_scaled_up_red_box = w.previously_scaled_up_red_box
              /\ is_scaling = w.is_scaling
    /\ win = FALSE

Build == BuildInit /\ [][Next]_vars

\* ----------------------------------------------------- end to end ----
\* A level that holds only a red box, a blue box in the cell next to it along
\* x and a green box in the cell beyond, towards either side and with up to
\* MaxPad empty cells before and after; the frames keep coming.
MaxPad == 2

Padded(row, before, after) ==
    [j \in 1..(before + Len(row) + after) |->
        IF j > before /\ j <= before + Len(row) THEN row[j - before] ELSE " "]

PushLevels ==
    UNION { {<<Padded(<<"r", "b", "g">>, before, after)>>,
             <<Padded(<<"g", "b", "r">>, before, after)>>} :
            before \in 0..MaxPad, after \in 0..MaxPad }

PushInit ==
    /\ level \in PushLevels
    /\ scene = "game"
    /\ level_number = 0
    /\ completed_levels = [i \in 0..(TOTAL_LEVELS - 1) |-> FALSE]
    /\ StartGame(level)
    /\ win = FALSE

\* what the scaling part of main leaves in the frame that starts now
GrowNow ==
    Grow(Marked(boxes, detect_win(boxes)), scaled_up_red_box,
         previously_scaled_up_red_box, is_scaling)

\* ENABLED <<Frame>>_vars written out: the frame that starts now changes the
\* state, by ending the level, by panning, or by what main leaves
FramePending ==
    /\ scene = "game"
    /\ \/ detect_win(boxes).result # win
       \/ is_panning
       \/ GrowNow.boxes # boxes
       \/ GrowNow.is_scaling # is_scaling
       \/ calculate_render_order(Marked(boxes, detect_win(boxes)), angle)
              # box_render_order

\* the 'updating' event is delivered at every tick of the scene: weak
\* fairness of Frame, with FramePending for its enabling condition
FrameFairness == []<>(~FramePending) \/ []<><<Frame>>_vars

EndToEnd == PushInit /\ [][Next]_vars /\ FrameFairness

\* ------------------------------------------------------- the camera ----
\* The game with the pointer events that pan the camera, on a small level: a
\* blue box that is pushed onto a green box, and a second green box beside the
\* red box.
CameraLevels == { << <<"r", "b", "g">>, <<"g", " ", " ">> >> }

CameraInit ==
    /\ level \in CameraLevels
    /\ scene = "game"
    /\ level_number = 0
    /\ completed_levels = [i \in 0..(TOTAL_LEVELS - 1) |-> FALSE]
    /\ StartGame(level)
    /\ win = FALSE

CameraNext ==
    \/ \E mouse \in Pointers : pan_start(mouse)
    \/ pan_end
    \/ \E hit \in Hits(boxes) : Click(hit)
    \/ Frame

Camera == CameraInit /\ [][CameraNext]_vars

\* ------------------------------------------------------ the pointer ----
\* Pressing the mouse button in the game scene runs the handlers of the
\* scene in the order they are registered: red_box_interaction ('clicking'),
\* then check_game_button_press and pan_start ('input.mouse.down').  The
\* pointer is away from the two buttons, so check_game_button_press changes
\* nothing.

\* pan_pos and is_panning
PanState == [pan_pos |-> pan_pos, is_panning |-> is_panning]

\* pan_start(world, x, y) once red_box_interaction has left w: the pan state
pan_start_after(w, p, mouse) ==
    IF ~w.is_clicking_interactable
    THEN [pan_pos |-> mouse, is_panning |-> TRUE]
    ELSE p

\* what the handlers leave when the button goes down at mouse, on the boxes
\* of hit
pointer_down(hit, mouse) ==
    [selection |-> red_box_interaction(Selection, base, boxes, box_render_order, hit),
     pan |-> pan_start_after(
                 red_box_interaction(Selection, base, boxes, box_render_order, hit),
                 PanState, mouse)]

PointerDown(hit, mouse) ==
    /\ scene = "game"
    /\ Select(pointer_down(hit, mouse).selection)
    /\ pan_pos' = pointer_down(hit, mouse).pan.pan_pos
    /\ is_panning' = pointer_down(hit, mouse).pan.is_panning
    /\ UNCHANGED <<level, scene, level_number, completed_levels, base, boxes,
                   box_render_order, angle, win>>

PointerNext ==
    \/ \E hit \in Hits(boxes) : \E mouse \in Pointers : PointerDown(hit, mouse)
    \/ pan_end
    \/ Frame

Pointer == CameraInit /\ [][PointerNext]_vars

\* ------------------------------------------------------- the session ----
\* The scenes around the game: the main menu, the instructions, the level
\* menu and the two buttons of the game scene.  The buttons are drawn apart,
\* so the mouse is over one button at most; a click beside every button
\* changes nothing.

\* levels.change_level(level_number): the grid of a level.  Levels 0, 3, 6
\* and 9 can be won; in the others the blue box comes to rest beside the green
\* box, or a white box stands where a blue box would have to be.
change_level(n) ==
    IF n % 3 = 0 THEN << <<"r", "b", "g">> >>
    ELSE IF n % 3 = 1 THEN << <<"r", "b", " ", "g">> >>
    ELSE << <<"r", "w", "g">>, <<" ", "b", " ">> >>

\* the window shows the World w
Enter(w) ==
    /\ base' = w.base
    /\ boxes' = w.boxes
    /\ box_render_order' = w.box_render_order
    /\ angle' = w.angle
    /\ pan_pos' = w.pan_pos
    /\ is_panning' = w.is_panning
    /\ is_clicking_interactable' = w.is_clicking_interactable
    /\ scaled_up_red_box' = w.scaled_up_red_box
    /\ previously_scaled_up_red_box' = w.previously_scaled_up_red_box
    /\ is_scaling' = w.is_scaling

\* a variant of create_world that starts the completion flags afresh
create_world_forgetting(n) ==
    /\ scene' = "game"
    /\ level' = change_level(n)
    /\ Enter(create_level(change_level(n), base_x, base_z))
    /\ win' = FALSE
    /\ completed_levels' = [i \in DOMAIN completed_levels |-> FALSE]

\* change_scene('game') when level_number is n: create_world()
create_world(n) ==
    /\ scene' = "game"
    /\ level' = change_level(n)
    /\ Enter(create_level(change_level(n), base_x, base_z))
    /\ win' = FALSE
    /\ UNCHANGED completed_levels

\* change_scene to a menu: the World, when there is one, is left behind
ShowMenu(menu) ==
    /\ scene' = menu
    /\ UNCHANGED <<level, level_number, completed_levels, base, boxes,
                   box_render_order, angle, pan_pos, is_panning,
                   is_clicking_interactable, scaled_up_red_box,
                   previously_scaled_up_red_box, is_scaling, win>>

\* when('clicking: main_menu', main_menu_click)
main_menu_click(button) ==
    /\ scene = "main_menu"
    /\ IF button = "play" THEN ShowMenu("level_menu") ELSE ShowMenu("instructions_menu")

\* when('clicking: instructions_menu', instructions_menu_click): pop_scene()
\* goes back to the main menu, the only scene that pushes this one
instructions_menu_click ==
    /\ scene = "instructions_menu"
    /\ ShowMenu("main_menu")

\* the buttons of the level menu: the back button and one button for a level
LevelMenuButtons ==
    {<<"back", 0>>} \cup {<<"level", i>> : i \in 0..(TOTAL_LEVELS - 1)}

\* when('clicking: level_menu', level_menu_click)
level_menu_click(button) ==
    /\ scene = "level_menu"
    /\ IF button[1] = "back"
       THEN ShowMenu("main_menu")
       ELSE /\ level_number' = button[2]
            /\ create_world(button[2])

\* when('input.mouse.down: game', check_game_button_press)
check_game_button_press(button) ==
    /\ scene = "game"
    /\ IF button = "Level Select"
       THEN ShowMenu("level_menu")
       ELSE /\ create_world(level_number)
            /\ UNCHANGED level_number

\* start(scene='main_menu'): no World yet
SessionInit ==
    /\ scene = "main_menu"
    /\ level_number = 0
    /\ completed_levels = [i \in 0..(TOTAL_LEVELS - 1) |-> FALSE]
    /\ level = <<>>
    /\ base = create_box(<<FInt(base_x), One, FInt(base_z)>>, <<Zero, One, Zero>>, "base")
    /\ boxes = <<<<>>, <<>>, <<>>, <<>>>>
    /\ box_render_order = <<>>
    /\ angle = InitialAngle
    /\ pan_pos = <<0, 0>>
    /\ is_panning = FALSE
    /\ is_clicking_interactable = FALSE
    /\ scaled_up_red_box = None
    /\ previously_scaled_up_red_box = None
    /\ is_scaling = FALSE
    /\ win = FALSE

SessionNext ==
    \/ \E button \in {"play", "instructions"} : main_menu_click(button)
    \/ instructions_menu_click
    \/ \E button \in LevelMenuButtons : level_menu_click(button)
    \/ \E button \in {"Level Select", "Reset Level"} : check_game_button_press(button)
    \/ \E hit \in Hits(boxes) : Click(hit)
    \/ Frame

Session == SessionInit /\ [][SessionNext]_vars

\* ======================================================== properties ====
RedBoxes == boxes[RED]
BlueBoxes == boxes[BLUE]
GreenBoxes == boxes[GREEN]

\* the visits the push step of a frame makes from the current state
PushLog ==
    IF scene = "game" /\ is_scaling
    THEN move_blue_box(detect_win(boxes).blue, RedBoxes[scaled_up_red_box]).log
    ELSE <<>>

\* every green box has a blue box on it
AllGreenFilled ==
    \A g \in 1..Len(GreenBoxes) :
        \E b \in 1..Len(BlueBoxes) : BlueBoxes[b].center = GreenBoxes[g].center

\* C1: detect_win returns true exactly when every green box has the center
\* of at least one blue box (and false as soon as one green box has none).
C1_DetectWinIffAllFilled == detect_win(boxes).result <=> AllGreenFilled

\* ---- C2
\* both probes of an axis found no collision
BothFree(bxs, rb, axis) ==
    /\ check_box_collision(bxs, rb.center, axis, 1)
    /\ check_box_collision(bxs, rb.center, axis, -1)

\* rb is the growing red box before main runs and rb1 the same box after it
GrowsOnFreeAxes(bxs, rb, rb1) ==
    /\ \A axis \in {0, 2} :
          IF BothFree(bxs, rb, axis)
          THEN rb1.size[axis + 1] \in {rb.size[axis + 1],
                                       FAdd(rb.size[axis + 1], SCALE_SPEED)}
          ELSE rb1.size[axis + 1] = rb.size[axis + 1]
    /\ FLt(rb.size[2], SCALE_MAX) => rb1.size[2] = FAdd(rb.size[2], SCALE_SPEED)

\* the boxes main leaves when it runs in the frame that starts now
AfterMain ==
    Grow(Marked(boxes, detect_win(boxes)), scaled_up_red_box,
         previously_scaled_up_red_box, is_scaling).boxes

\* C2: in every frame of a growth the growing red box gets wider on x only
\* if both x probes of that frame found no collision, and on z only if both z
\* probes did; an axis with a blocked probe keeps its size in the frame,
\* while size.y still grows by SCALE_SPEED.
C2_GrowsOnlyOnFreeAxes ==
    (scene = "game" /\ is_scaling)
        => GrowsOnFreeAxes(boxes, RedBoxes[scaled_up_red_box],
                           AfterMain[RED][scaled_up_red_box])

BlockedOnXOnly(bxs, rb) ==
    /\ ~BothFree(bxs, rb, 0)
    /\ rb.size[1] = One
    /\ FGt(rb.size[2], One)
    /\ FGt(rb.size[3], One)

\* a growth under way that is blocked on x and has grown on y and z
C2_BlockedAxisKept ==
    is_scaling /\ BlockedOnXOnly(boxes, RedBoxes[scaled_up_red_box])

\* ---- C3
\* the cell k steps along the probed line from a box centred at c: the probe
\* of direction d looks at the boxes whose center plus d is the checked center
Cell(c, axis, direction, k) ==
    [c EXCEPT ![axis + 1] = FAdd(c[axis + 1], FInt(-(direction * k)))]

SameCell(c1, c2) == c1[1] = c2[1] /\ c1[3] = c2[3]

HoldsSolid(bxs, cell) ==
    \E t \in {RED, WHITE} : \E i \in 1..Len(bxs[t]) : SameCell(bxs[t][i].center, cell)

HoldsBlue(bxs, cell) ==
    \E i \in 1..Len(bxs[BLUE]) : SameCell(bxs[BLUE][i].center, cell)

\* a run of blue boxes from the neighbouring cell on, then a white or red box
LineBlocked(bxs, c, axis, direction) ==
    \E k \in 1..(Len(Probed(bxs)) + 1) :
        /\ HoldsSolid(bxs, Cell(c, axis, direction, k))
        /\ \A j \in 1..(k - 1) : HoldsBlue(bxs, Cell(c, axis, direction, j))

\* no red, white or blue box in any of the four neighbouring cells
Isolated(bxs, c) ==
    \A axis \in {0, 2} : \A direction \in {1, -1} :
        /\ ~HoldsSolid(bxs, Cell(c, axis, direction, 1))
        /\ ~HoldsBlue(bxs, Cell(c, axis, direction, 1))

\* the boxes at rest that a probe can start from
Resting(bxs) == { k \in 1..Len(Probed(bxs)) : ~Probed(bxs)[k].is_moving }

BlockedBehindBlue(bxs, rb) ==
    \E axis \in {0, 2} : \E direction \in {1, -1} :
        /\ HoldsBlue(bxs, Cell(rb.center, axis, direction, 1))
        /\ ~check_box_collision(bxs, rb.center, axis, direction)

StartsGrowth(front) ==
    /\ front[1] = RED
    /\ ~is_scaling
    /\ RedBoxes[front[2]].size[2] = One
    /\ front[2] # scaled_up_red_box

\* w is what red_box_interaction leaves after a click that hits hit
ClickOutcome(hit, w) ==
    IF hit # {} /\ StartsGrowth(closest_clicked(boxes, box_render_order, hit))
    THEN /\ w.scaled_up_red_box = closest_clicked(boxes, box_render_order, hit)[2]
         /\ w.previously_scaled_up_red_box = scaled_up_red_box
         /\ w.is_scaling
    ELSE /\ w.scaled_up_red_box = scaled_up_red_box
         /\ w.previously_scaled_up_red_box = previously_scaled_up_red_box
         /\ w.is_scaling = is_scaling

ClickDecision ==
    \A hit \in Hits(boxes) :
        ClickOutcome(hit, red_box_interaction(Selection, base, boxes,
                                              box_render_order, hit))

C5_OtherRedBoxesAtUnit ==
    ~is_scaling =>
        \A r \in 1..Len(RedBoxes) :
            r # scaled_up_red_box => RedBoxes[r].size = <<One, One, One>>

\* a second growth has finished
C5_SecondGrowthFinished ==
    /\ ~is_scaling
    /\ previously_scaled_up_red_box # None
    /\ FGt(RedBoxes[scaled_up_red_box].size[2], One)

\* ---- C6
AllBoxes == <<base>> \o boxes[RED] \o boxes[WHITE] \o boxes[BLUE] \o boxes[GREEN]

\* C6: every size component of every box is at least 1.0 and every size
\* component of every red box is at most SCALE_MAX.
C6_SizesWithinBounds ==
    /\ \A k \in 1..Len(AllBoxes) : \A a \in 1..3 : FGe(AllBoxes[k].size[a], One)
    /\ \A r \in 1..Len(RedBoxes) : \A a \in 1..3 : ~FGt(RedBoxes[r].size[a], SCALE_MAX)

\* ---- C7
\* C7: a growth that has come to its end (is_scaling false again, the grown
\* box still the scaled_up_red_box) has taken size.y to SCALE_MAX.
C7_GrowthEndsAtScaleMax ==
    (~is_scaling /\ scaled_up_red_box # None)
        => RedBoxes[scaled_up_red_box].size[2] = SCALE_MAX

\* ---- C8
\* the movement of a box pushed along axis to the side s
PushMovement(axis, s) ==
    IF axis = 0
    THEN <<IF s = 1 THEN FHalf(SCALE_SPEED) ELSE FNeg(FHalf(SCALE_SPEED)), Zero, Zero>>
    ELSE <<Zero, Zero, IF s = 1 THEN FHalf(SCALE_SPEED) ELSE FNeg(FHalf(SCALE_SPEED))>>

\* the visit e set a box moving that is next to its pusher on one axis, the
\* pusher being wider than 1 there, and the box moves away from it
PushedAway(e) ==
    \E axis \in {0, 2} : \E s \in {1, -1} :
        /\ e.before.center[axis + 1] = FAdd(e.pusher.center[axis + 1], FInt(s))
        /\ e.before.center[3 - axis] = e.pusher.center[3 - axis]
        /\ FGt(e.pusher.size[axis + 1], One)
        /\ e.after.is_moving
        /\ e.after.movement = PushMovement(axis, s)

RedPushes(log) == { i \in 1..Len(log) : log[i].kind = "push" /\ log[i].p = None }

RedPushesAway(log) == \A i \in RedPushes(log) : PushedAway(log[i])

\* C8: whenever the growing red box sets a blue box moving, the blue box is
\* exactly 1 away from the red box's center along one horizontal axis with
\* the same coordinate on the other, the red box's size on that axis is above
\* 1, and the blue box's movement becomes SCALE_SPEED/2 on that axis only,
\* away from the red box.
C8_RedPushIsAdjacentAndAway == RedPushesAway(PushLog)

\* the frame that starts now has the growing red box set a blue box moving
C8_RedBoxPushes == RedPushes(PushLog) # {}

\* ---- C9
BluePushes(log) == { i \in 1..Len(log) : log[i].kind = "push" /\ log[i].p # None }

BluePushesCopy(log) ==
    \A i \in BluePushes(log) : log[i].after.movement = log[i].pusher.movement

\* C9: whenever a blue box is set moving by a moving blue box, its movement
\* vector is equal to its pusher's movement vector.
C9_ChainPushCopiesMovement == BluePushesCopy(PushLog)

\* ---- C10
\* a red box, three blue boxes next to it in a line and nothing else on the
\* line, for either push direction along x and along z; the blue collection
\* holds the three boxes nearest first or farthest first with the direction
ThreeLines == Orientations(<<LineRow(3, " ", " "), SpareRow(3)>>)

MoveAsOne(blue) ==
    \A i \in 1..Len(blue) : \A j \in 1..Len(blue) :
        /\ blue[i].is_moving = blue[j].is_moving
        /\ blue[i].movement = blue[j].movement

\* C10: the three blue boxes of such a line start moving in the same frame,
\* have identical movement vectors throughout the push and stop in the same
\* frame.
C10_ThreeBlueBoxesMoveAsOne == level \in ThreeLines => MoveAsOne(BlueBoxes)

Pushing(blue) ==
    \A i \in 1..Len(blue) :
        blue[i].is_moving /\ blue[i].movement # <<Zero, Zero, Zero>>

\* the three blue boxes of such a line are being pushed
C10_ThreeBlueBoxesPushed == level \in ThreeLines /\ Pushing(BlueBoxes)

\* ---- C11
Integral(a) == a[3] = 0 /\ a[2] % OneHi = 0

\* a - b is at most 0.5 in magnitude
WithinHalf(a, b) ==
    ~MagLt(<<1, HalfHi, 0>>, FAdd(a, FNeg(b)))

\* the blue box b1 stands still on a grid cell
AtRest(b1) ==
    /\ ~b1.is_moving
    /\ b1.movement = <<Zero, Zero, Zero>>
    /\ Integral(b1.center[1])
    /\ Integral(b1.center[3])

\* the blue box b, one step of its movement on, is b1 at rest on the nearest cell
StoppedNear(b, b1) ==
    /\ AtRest(b1)
    /\ WithinHalf(b1.center[1], FAdd(b.center[1], b.movement[1]))
    /\ WithinHalf(b1.center[3], FAdd(b.center[3], b.movement[3]))

\* blue1 is what the frame leaves of the blue boxes blue
AllStopped(blue, blue1) ==
    \A b \in 1..Len(blue) :
        IF blue[b].is_moving THEN StoppedNear(blue[b], blue1[b]) ELSE AtRest(blue1[b])

\* the growing red box has reached SCALE_MAX: the push step of the frame that
\* starts now sees it so
GrowthDone ==
    /\ scene = "game"
    /\ is_scaling
    /\ FGe(RedBoxes[scaled_up_red_box].size[2], SCALE_MAX)

\* C11: in the frame whose push step sees the growing red box with size.y >=
\* SCALE_MAX every moving blue box stops (is_moving false, movement zero, x
\* and z center on the nearest integers); and whenever is_scaling is false no
\* blue box is moving and every blue box center is integral.
C11_BlueBoxesStopAtScaleMax ==
    /\ GrowthDone => AllStopped(BlueBoxes, AfterMain[BLUE])
    /\ ~is_scaling => \A b \in 1..Len(BlueBoxes) : AtRest(BlueBoxes[b])

Displaced(blue, blue0) == \E b \in 1..Len(blue) : blue[b].center # blue0[b].center

\* a growth has ended and has left a blue box on another cell
C11_PushedBoxAtRest ==
    /\ ~is_scaling
    /\ scaled_up_red_box # None
    /\ Displaced(BlueBoxes, BoxesOf(level, base_x, base_z, "b", "blue"))

\* ---- C12
Purple(blue) == { b \in 1..Len(blue) : blue[b].color = "purple" }

Matched == { b \in Purple(detect_win(boxes).blue) : ~BlueBoxes[b].is_moving }

\* blue1 is what a frame leaves of the blue boxes blue: the box b is as it was
LeftInPlace(blue, blue1, b) ==
    /\ ~blue1[b].is_moving
    /\ blue1[b].center = blue[b].center

\* C13 as claimed: a blue box that has been matched to a green box is excluded
\* from push propagation; no growth of a red box and no moving blue box sets
\* its is_moving to true or changes its center.
C13_PurpleBoxNeverPushed ==
    scene = "game" => \A b \in Matched : LeftInPlace(BlueBoxes, AfterMain[BLUE], b)

\* the box b is 1 away from the red box rb along an axis on which rb is wider
\* than 1, with the same coordinate on the other axis
NextToWide(rb, b) ==
    \E axis \in {0, 2} : \E s \in {1, -1} :
        /\ b.center[axis + 1] = FAdd(rb.center[axis + 1], FInt(s))
        /\ b.center[3 - axis] = rb.center[3 - axis]
        /\ FGt(rb.size[axis + 1], One)

\* the matched boxes the growing red box rb is to push
MatchedNextTo(rb) == { b \in Matched : NextToWide(rb, BlueBoxes[b]) }

\* blue1 is what a frame leaves of the blue boxes blue: the box b has moved
SetOff(blue, blue1, b) == blue1[b].center # blue[b].center

\* C13: a blue box that has been matched to a green box is not excluded from
\* push propagation: when a frame of a growth finds it at rest next to the
\* growing red box on an axis on which that box is wider than 1, it is pushed
\* off its cell like any other blue box.
C13_PurpleBoxPushedLikeBlue ==
    (scene = "game" /\ is_scaling)
        => \A b \in MatchedNextTo(RedBoxes[scaled_up_red_box]) :
               SetOff(BlueBoxes, AfterMain[BLUE], b)

\* a growth is about to push a box that is on a green box
C13_GrowthNextToPurpleBox ==
    /\ scene = "game"
    /\ is_scaling
    /\ MatchedNextTo(RedBoxes[scaled_up_red_box]) # {}

OnlyDemotionChanges ==
    previously_scaled_up_red_box' # previously_scaled_up_red_box
        => /\ ~is_scaling
           /\ is_scaling'
           /\ previously_scaled_up_red_box' = scaled_up_red_box
           /\ previously_scaled_up_red_box' # None

Completed(completed, n) ==
    [i \in DOMAIN completed |-> IF i = n THEN TRUE ELSE completed[i]]

\* what the win check of a frame does when detect_win returns won
WinCheckOutcome(won) ==
    IF won
    THEN /\ completed_levels' = Completed(completed_levels, level_number)
         /\ scene' = "level_menu"
    ELSE /\ completed_levels' = completed_levels
         /\ scene' = "game"

\* the World on show is that of the level chosen last in the level menu
PlaysChosenLevel == scene = "game" => level = change_level(level_number)

\* C15: in any update frame of the game scene in which detect_win is true the
\* completed flag at index level_number (the level most recently chosen in
\* the level menu, whose World is on show) is set to true and the scene
\* changes to the level menu; in a frame where detect_win is false no
\* completed flag changes and the scene stays.
C15_WinMarksLevelAndLeaves ==
    /\ []PlaysChosenLevel
    /\ [][Frame => WinCheckOutcome(detect_win(boxes).result)]_vars

\* a level other than the first has just been won
C15_LaterLevelWon ==
    /\ scene = "level_menu"
    /\ win
    /\ level_number # 0
    /\ completed_levels[level_number]

\* ---- C16
\* no flag that is set is cleared
FlagsKept == \A i \in DOMAIN completed_levels : completed_levels[i] => completed_levels'[i]

\* the step starts a level from the level menu
LevelStart == \E i \in 0..(TOTAL_LEVELS - 1) : level_menu_click(<<"level", i>>)

\* the step resets the level
LevelReset == check_game_button_press("Reset Level")

\* C16: a completed_levels entry that is true never becomes false again,
\* whatever the menu clicks, level selections, level resets, growths and wins;
\* and rebuilding the World changes neither completed_levels nor level_number:
\* a level start builds the World of the level number the menu click has set,
\* a reset that of the level number as it was.
C16_CompletionFlagsMonotone ==
    /\ [][FlagsKept]_vars
    /\ [][LevelStart => (completed_levels' = completed_levels
                           /\ level' = change_level(level_number'))]_vars
    /\ [][LevelReset => (completed_levels' = completed_levels
                           /\ level_number' = level_number
                           /\ level' = change_level(level_number))]_vars

\* a World built after a win: another level is on show before its first frame
\* while a flag is set
C16_WorldRebuiltAfterWin ==
    /\ scene = "game"
    /\ box_render_order = <<>>
    /\ \E i \in DOMAIN completed_levels : completed_levels[i] /\ i # level_number

\* ---- C17
\* the places of the reference r in order
Places(order, r) == { k \in 1..Len(order) : order[k] = r }

\* order holds every box of bxs and the base box once each, and nothing else
IsPermutation(order, bxs) ==
    /\ \A r \in Refs(bxs) \cup {BaseRef} : Cardinality(Places(order, r)) = 1
    /\ \A k \in 1..Len(order) : order[k] \in Refs(bxs) \cup {BaseRef}

\* C17: after calculate_render_order, for every yaw and pitch and every box
\* configuration, box_render_order is a permutation of all red, white, blue
\* and green boxes plus the base box: each appears exactly once and nothing
\* else appears, also at band boundaries and when centers tie.
C17_RenderOrderIsPermutation ==
    scene = "game" =>
        /\ IsPermutation(calculate_render_order(boxes, angle), boxes)
        /\ box_render_order # <<>> => IsPermutation(box_render_order, boxes)

\* a blue box with the center of a green box
Coincide(blue, green) ==
    \E b \in 1..Len(blue) : \E g \in 1..Len(green) : blue[b].center = green[g].center

\* the order has been computed at a band boundary for boxes of which two have
\* the same center
C17_TieAtBandBoundary ==
    /\ scene = "game"
    /\ angle[2] \in {2, 6, 10, 14}
    /\ Coincide(BlueBoxes, GreenBoxes)
    /\ box_render_order = calculate_render_order(boxes, angle)

\* ---- C18
\* the band of the yaw class y: 1 is [pi/4, 3pi/4), 2 is [3pi/4, 5pi/4), 3 is
\* [5pi/4, 7pi/4) and 0 the rest; and the place of y in its band: 0 the lower
\* boundary, 1 the first half, 2 the middle and 3 the second half
Band(y) == ((y + 2) % 16) \div 4
PlaceInBand(y) == (y + 2) % 4

\* the middle of a band goes with its first half, in band 0 with its second
SecondHalf(y) == IF Band(y) = 0 THEN PlaceInBand(y) >= 2 ELSE PlaceInBand(y) = 3

\* the rule of a band: the primary axis and whether it ascends, and whether
\* the other axis ascends among boxes that tie on the primary axis
Rule(y) ==
    [axis |-> IF Band(y) \in {1, 3} THEN 1 ELSE 3,
     up |-> Band(y) \in {1, 2},
     tie_up |-> IF Band(y) \in {0, 1} THEN SecondHalf(y) ELSE ~SecondHalf(y)]

\* a < b when up, a > b when not
Ordered(up, a, b) == IF up THEN FLt(a, b) ELSE FGt(a, b)

\* a box centred at c1 precedes a box centred at c2 under the rule r
Precedes(r, c1, c2) ==
    \/ Ordered(r.up, c1[r.axis], c2[r.axis])
    \/ /\ c1[r.axis] = c2[r.axis]
       /\ Ordered(r.tie_up, c1[4 - r.axis], c2[4 - r.axis])

\* the centers of the boxes of order, the base box left out
Centers(order, bxs) ==
    [k \in 1..(Len(order) - 1) |->
        BoxAt(<<>>, bxs, SelectSeq(order, LAMBDA r : r # BaseRef)[k]).center]

\* no two centers of cs are inverted with respect to the rule r
Sorted(r, cs) ==
    \A k \in 1..Len(cs) : \A l \in (k + 1)..Len(cs) : ~Precedes(r, cs[l], cs[k])

\* the test that counts an already placed box is "it precedes the new box"
CountsPreceding(y, bxs) ==
    \A p \in Refs(bxs) : \A q \in Refs(bxs) :
        After(y, bxs[p[1]][p[2]].center, bxs[q[1]][q[2]].center)
            <=> Precedes(Rule(y), bxs[q[1]][q[2]].center, bxs[p[1]][p[2]].center)

\* C18: after calculate_render_order the non-base boxes are sorted by the
\* rule of the active yaw band: x ascending in [pi/4, 3pi/4), z ascending in
\* [3pi/4, 5pi/4), x descending in [5pi/4, 7pi/4), z descending otherwise,
\* ties on the primary axis ordered by the other axis in a direction that
\* flips at the middle of the band; a box is inserted after the already
\* placed boxes that precede it under that rule, and no two boxes of the
\* result are inverted with respect to it.
C18_RenderOrderSortedByBandRule ==
    scene = "game" =>
        /\ CountsPreceding(angle[2], boxes)
        /\ Sorted(Rule(angle[2]), Centers(calculate_render_order(boxes, angle), boxes))

\* two boxes tie on the primary axis of the band
TieOnPrimary(r, bxs) ==
    \E p \in Refs(bxs) : \E q \in Refs(bxs) :
        /\ bxs[p[1]][p[2]].center[r.axis] = bxs[q[1]][q[2]].center[r.axis]
        /\ bxs[p[1]][p[2]].center[4 - r.axis] # bxs[q[1]][q[2]].center[4 - r.axis]

\* the order has been computed in the second half of the band that sorts by
\* x descending, during a push, for boxes of which two tie on x
C18_TieInSecondHalf ==
    /\ scene = "game"
    /\ angle[2] = 13
    /\ \E b \in 1..Len(BlueBoxes) : BlueBoxes[b].is_moving
    /\ TieOnPrimary(Rule(13), boxes)
    /\ box_render_order = calculate_render_order(boxes, angle)

\* ---- C19
\* the base width and depth the World was built with
BaseX == base.size[1][2] \div OneHi
BaseZ == base.size[3][2] \div OneHi

\* the character and the color of the boxes of collection t
Character(t) == <<"r", "w", "b", "g">>[t]
Colour(t) == <<"red", "white", "blue", "green">>[t]

\* the cells <<i, j>> of the row-reversed grid that hold the character ch
CellsOf(lv, ch) ==
    { c \in (0..(Len(lv) - 1)) \X (0..(Len(lv[1]) - 1)) :
        Reversed(lv)[c[1] + 1][c[2] + 1] = ch }

\* a unit box of the color at the place of the cell c, at rest
UnitBoxAt(box, c, bx, bz, color) ==
    /\ box.color = color
    /\ box.size = <<One, One, One>>
    /\ box.center = <<FInt(c[2] - (bx \div 2)), Zero, FInt(c[1] - (bz \div 2))>>
    /\ ~box.is_moving
    /\ box.movement = <<Zero, Zero, Zero>>

\* the World w has one box for every recognised character of lv and no other
BuiltFromGrid(w, lv, bx, bz) ==
    /\ \A t \in 1..4 :
          /\ Len(w.boxes[t]) = Cardinality(CellsOf(lv, Character(t)))
          /\ \A c \in CellsOf(lv, Character(t)) :
                Cardinality({ k \in 1..Len(w.boxes[t]) :
                                UnitBoxAt(w.boxes[t][k], c, bx, bz, Colour(t)) }) = 1
    /\ ~w.is_scaling
    /\ w.scaled_up_red_box = None
    /\ w.previously_scaled_up_red_box = None

\* C19: create_level places, for every character r, w, b or g at column j of
\* row i of the row-reversed grid, exactly one unit box of the matching color
\* in the matching collection at center (j - floor(base_x/2), 0,
\* i - floor(base_z/2)); every other character yields no box, so the number
\* of boxes is the number of recognised characters; and the new World starts
\* with is_scaling false, no scaled up or previously scaled up box and every
\* box at rest with zero movement.
C19_LevelBuiltFromGrid ==
    BuiltFromGrid(create_level(level, BaseX, BaseZ), level, BaseX, BaseZ)

\* a World just built on the base of 2 by 1 from a grid whose rows differ and
\* which holds a character that stands for no box
C19_WorldJustBuilt ==
    /\ BaseX = 2
    /\ Len(level) = 2
    /\ level[1] # level[2]
    /\ \E i \in 1..2 : \E j \in 1..2 : level[i][j] = "x"
    /\ Len(RedBoxes) = 1
    /\ boxes = create_level(level, BaseX, BaseZ).boxes
    /\ box_render_order = <<>>

\* ---- C20
\* the blue box rests on the green box
BlueOnGreen ==
    /\ ~BlueBoxes[1].is_moving
    /\ BlueBoxes[1].center = GreenBoxes[1].center

\* the win check has detected the win
Won == win /\ completed_levels[level_number] /\ scene = "level_menu"

\* C20: in a level that holds only a red box, a blue box in the cell next to
\* it along x and a green box in the next cell beyond, clicking the red box
\* and letting frames run pushes the blue box until it rests with its center
\* equal to the green box's center, after which the win check of a frame
\* detects the win (detect_win true, completed flag of the level set).
C20_PushOntoGreenWins ==
    /\ []((~is_scaling /\ scaled_up_red_box # None) => BlueOnGreen)
    /\ [](Won => BlueOnGreen)
    /\ is_scaling ~> Won

\* the level has been won with the blue box on the green box
C20_LevelWon == Won /\ BlueOnGreen /\ scaled_up_red_box # None

\* ---- C21
\* the grid ["rg"] built on the base of width 2 and depth 1
RedGreenRow == level = << <<"r", "g">> >> /\ BaseX = 2 /\ BaseZ = 1

\* the collection holds exactly one box and its center is (x, 0, 0)
OnlyBoxAt(collection, x) ==
    /\ Len(collection) = 1
    /\ collection[1].center = <<FInt(x), Zero, Zero>>

\* C21 as claimed: building the level grid ["rg"] with base width 2 and depth
\* 1 yields exactly one red box at center (0,0,0) and exactly one green box at
\* center (-1,0,0).
C21_RedAtOriginGreenBeside ==
    RedGreenRow =>
        /\ OnlyBoxAt(create_level(level, BaseX, BaseZ).boxes[RED], 0)
        /\ OnlyBoxAt(create_level(level, BaseX, BaseZ).boxes[GREEN], -1)

\* C21: building the level grid ["rg"] with base width 2 and depth 1 yields
\* exactly one red box, at center (-1,0,0), exactly one green box, at center
\* (0,0,0), and no white or blue box: column j is placed at x = j - floor(2/2).
C21_RedBesideGreenAtOrigin ==
    RedGreenRow =>
        /\ OnlyBoxAt(create_level(level, BaseX, BaseZ).boxes[RED], -1)
        /\ OnlyBoxAt(create_level(level, BaseX, BaseZ).boxes[GREEN], 0)
        /\ create_level(level, BaseX, BaseZ).boxes[WHITE] = <<>>
        /\ create_level(level, BaseX, BaseZ).boxes[BLUE] = <<>>

\* the World of the grid ["rg"] on the base of 2 by 1 has just been built
C21_RedGreenRowBuilt ==
    /\ RedGreenRow
    /\ scaled_up_red_box = None
    /\ boxes = create_level(level, BaseX, BaseZ).boxes

\* ---- C22
\* the visits of the log that advance the k-th blue box
Steps(log, k) == { i \in 1..Len(log) : log[i].kind = "step" /\ log[i].k = k }

\* the visits of the log that set the k-th blue box moving
Starts(log, k) == { i \in 1..Len(log) : log[i].kind = "push" /\ log[i].k = k }

\* the k-th blue box moves in the frame: it was moving or the frame sets it
\* moving
MovesInFrame(log, blue, k) == blue[k].is_moving \/ Starts(log, k) # {}

\* C22: in every frame, the center of each moving blue box changes by exactly
\* one application of its movement vector (center' = center + movement, before
\* any snap), including the frame in which the box or other boxes of its
\* chain start moving.
C22_OneStepPerFrame ==
    \A k \in 1..Len(BlueBoxes) :
        Cardinality(Steps(PushLog, k)) =
            IF MovesInFrame(PushLog, BlueBoxes, k) THEN 1 ELSE 0

\* ---- C23
\* the calls of move_blue_box the log shows with the p-th blue box for pushing
\* box: every call visits its pushing box, which is moving, once
CallsOf(log, p) ==
    { i \in 1..Len(log) : log[i].kind = "step" /\ log[i].p = p /\ log[i].k = p }

\* every visit that set a box moving found it not moving
SetMovingOnce(log) ==
    \A i \in 1..Len(log) :
        log[i].kind = "push" => ~log[i].before.is_moving /\ log[i].after.is_moving

\* every box makes one call when the frame has set it moving and none otherwise
OneCallPerStart(log, n) ==
    \A p \in 1..n :
        /\ Cardinality(Starts(log, p)) <= 1
        /\ Cardinality(CallsOf(log, p)) = Cardinality(Starts(log, p))

\* the deepest call the log shows
DepthWithin(log, n) == \A i \in 1..Len(log) : log[i].depth <= n

\* C23: move_blue_box terminates in every reachable state (the calls of one
\* frame number at most the blue boxes plus one and each visits every blue
\* box once), and its recursion depth in one frame never exceeds the number
\* of blue boxes plus one: each recursive call is made only for a blue box
\* that changed from not moving to moving in that call, so no box is the
\* pusher of a recursive call twice in one frame.
C23_PushRecursionBounded ==
    /\ Len(PushLog) <= (Len(BlueBoxes) + 1) * Len(BlueBoxes)
    /\ DepthWithin(PushLog, Len(BlueBoxes) + 1)
    /\ SetMovingOnce(PushLog)
    /\ OneCallPerStart(PushLog, Len(BlueBoxes))

\* the frame that starts now sets a chain of at least three blue boxes moving,
\* each in the call of the one before it
C23_DeepestRecursion ==
    /\ Len(BlueBoxes) >= 3
    /\ \E i \in 1..Len(PushLog) : PushLog[i].depth = Len(BlueBoxes) + 1

\* ---- C24
\* the red boxes as create_level placed them
RedBoxesBuilt == BoxesOf(level, base_x, base_z, "r", "red")

\* center.y + size.y / 2 of a box, in the arithmetic of the program
RestingFace(box) == FAdd(box.center[2], FHalf(box.size[2]))

\* C24: for every red box in every reachable state, center.y + size.y/2 keeps
\* its initial value (the face resting on the base stays on the floor): each
\* per-frame change of size.y by d, when growing and when shrinking, is
\* accompanied by a compensating change of center.y by d/2, and the box's x
\* and z center never change.
C24_RedBoxStaysOnFloor ==
    \A r \in 1..Len(RedBoxes) :
        /\ RestingFace(RedBoxes[r]) = RestingFace(RedBoxesBuilt[r])
        /\ RedBoxes[r].center[1] = RedBoxesBuilt[r].center[1]
        /\ RedBoxes[r].center[3] = RedBoxesBuilt[r].center[3]

\* ---- C25
\* C25: in every reachable state, a blue box whose movement vector is nonzero
\* has is_moving true (movement is nonzero only while moving), and a blue box
\* with is_moving false has movement exactly zero.
C25_MovementOnlyWhileMoving ==
    \A b \in 1..Len(BlueBoxes) :
        /\ BlueBoxes[b].movement # <<Zero, Zero, Zero>> => BlueBoxes[b].is_moving
        /\ ~BlueBoxes[b].is_moving => BlueBoxes[b].movement = <<Zero, Zero, Zero>>

\* a growth has pushed a blue box to another cell and stopped it there, and a
\* second growth has another blue box moving
C25_StoppedAndMovingBoxes ==
    /\ \E b \in 1..Len(BlueBoxes) :
          /\ ~BlueBoxes[b].is_moving
          /\ BlueBoxes[b].center # BoxesOf(level, base_x, base_z, "b", "blue")[b].center
    /\ \E b \in 1..Len(BlueBoxes) :
          /\ BlueBoxes[b].is_moving
          /\ BlueBoxes[b].movement # <<Zero, Zero, Zero>>

\* ---- C26
\* the reference r is in the render order and no box of hit comes after it
LatestDrawn(order, hit, r) ==
    \E k \in 1..Len(order) :
        /\ order[k] = r
        /\ \A n \in (k + 1)..Len(order) : order[n] \notin hit

\* whatever boxes a click hits, the box acted on is the hit box drawn last
ActsOnLatestDrawn ==
    \A hit \in Hits(boxes) \ {{}} :
        /\ closest_clicked(boxes, box_render_order, hit) \in hit
        /\ closest_clicked(boxes, box_render_order, hit) # BaseRef
        /\ LatestDrawn(box_render_order, hit,
                       closest_clicked(boxes, box_render_order, hit))

\* C26: when a click hits faces of several boxes, the box acted on is the hit
\* box that appears latest in box_render_order (the one drawn last, closest
\* to the camera); the base box, although present in box_render_order, is
\* never the selected box.
C26_ClickActsOnLatestDrawn == scene = "game" => ActsOnLatestDrawn

\* ---- C27
\* the frontmost box of a click on the boxes of hit is red
OnRedBox(hit) ==
    hit # {} /\ closest_clicked(boxes, box_render_order, hit)[1] = RED

\* the click on the boxes of hit starts a growth
TriggersGrowth(hit) ==
    hit # {} /\ StartsGrowth(closest_clicked(boxes, box_render_order, hit))

\* the pan state pan after the button went down at mouse on the boxes of hit
PanOutcome(hit, mouse, pan) ==
    /\ ~OnRedBox(hit) => pan = [pan_pos |-> mouse, is_panning |-> TRUE]
    /\ TriggersGrowth(hit) => pan = PanState

\* C27: after any sequence of earlier clicks, pointer events and frames, a
\* pointer-down in the game scene that is not on a red box initiates a pan
\* (is_panning becomes true and pan_pos is set to the pointer position), and
\* a pointer-down that triggers a red box's growth does not initiate one.
C27_PanUnlessGrowthTriggered ==
    scene = "game" =>
        \A hit \in Hits(boxes) : \A mouse \in Pointers :
            PanOutcome(hit, mouse, pointer_down(hit, mouse).pan)

\* ---- C28
\* no two of the red, white and blue boxes stand on the same cell
OnDistinctCells(bxs) ==
    \A i \in 1..Len(Probed(bxs)) : \A j \in 1..Len(Probed(bxs)) :
        i # j => ~SameCell(Probed(bxs)[i].center, Probed(bxs)[j].center)

\* C28: starting from a level in which all red, white and blue boxes occupy
\* distinct grid cells, in every reachable state in which is_scaling is false
\* no two boxes among the red, white and blue collections have the same
\* (x, z) center: a push never leaves a blue box resting on the cell of
\* another blue, white or red box.
C28_BoxesRestOnDistinctCells == ~is_scaling => OnDistinctCells(boxes)

\* ---- C29
\* the blue boxes as create_level placed them
BlueBoxesBuilt == BoxesOf(level, base_x, base_z, "b", "blue")

\* the center c is the center c0 or one cell from it along x or along z
AtMostOneCellOn(c0, c) ==
    \/ c = c0
    \/ \E axis \in {0, 2} : \E s \in {1, -1} :
          c = [c0 EXCEPT ![axis + 1] = FAdd(c0[axis + 1], FInt(s))]

\* the first growth of the level has come to its end
FirstGrowthOver ==
    /\ ~is_scaling
    /\ scaled_up_red_box # None
    /\ previously_scaled_up_red_box = None

\* C29: for every chain length and every order of the boxes in the blue
\* collection, each blue box that received a nonzero movement during a growth
\* comes to rest, after the snap at the end of that growth, exactly one grid
\* cell away from the cell it started in, in the direction of its movement;
\* blue boxes that received no nonzero movement rest in their starting cell.
\* Stated for the first growth of a level, where the starting cells are those
\* of create_level: every blue box rests on its cell or one cell from it.
C29_PushedBoxesRestOneCellOn ==
    FirstGrowthOver =>
        \A b \in 1..Len(BlueBoxes) :
            /\ AtRest(BlueBoxes[b])
            /\ AtMostOneCellOn(BlueBoxesBuilt[b].center, BlueBoxes[b].center)

\* ---- C30
\* the size of the red box on x and on z is 1.0 or its size on y
GrownInStep(rb) ==
    /\ rb.size[1] = One \/ rb.size[1] = rb.size[2]
    /\ rb.size[3] = One \/ rb.size[3] = rb.size[2]

\* C30: in every reachable state, each red box's size.x is either 1 or equal
\* to its size.y, and likewise its size.z: the allowed-axis decision computed
\* by the collision probes does not change between the frames of one growth,
\* so an axis either grows in every frame of the growth or in none, and
\* shrinks in step with y.
C30_AxesGrowInStepWithHeight ==
    \A r \in 1..Len(RedBoxes) : GrownInStep(RedBoxes[r])

\* a growth is under way while the red box grown before it, which one axis
\* kept at 1.0, is part of the way down
C30_BlockedBoxShrinking ==
    /\ is_scaling
    /\ previously_scaled_up_red_box # None
    /\ FGt(RedBoxes[previously_scaled_up_red_box].size[2], One)
    /\ FLt(RedBoxes[previously_scaled_up_red_box].size[2], FInt(2))
    /\ \/ RedBoxes[previously_scaled_up_red_box].size[1] = One
       \/ RedBoxes[previously_scaled_up_red_box].size[3] = One
    /\ FGt(RedBoxes[scaled_up_red_box].size[2], FInt(2))

\* ---- C31
\* The game with the pointer events that pan the camera, on
\* a level that holds a box of every kind: a white box beside the red box,
\* and a blue box that the red box pushes onto a green box.
SceneryLevels ==
    { << <<"r", "b", "g">>, <<"w", " ", " ">> >> }

SceneryInit ==
    /\ level \in SceneryLevels
    /\ scene = "game"
    /\ level_number = 0
    /\ completed_levels = [i \in 0..(TOTAL_LEVELS - 1) |-> FALSE]
    /\ StartGame(level)
    /\ win = FALSE

Scenery == SceneryInit /\ [][CameraNext]_vars

\* the box c has the size, center, is_moving and movement of the box b
Unmoved(b, c) ==
    /\ c.size = b.size
    /\ c.center = b.center
    /\ c.is_moving = b.is_moving
    /\ c.movement = b.movement

\* the boxes of the collection t are those of s, each one unmoved
AllUnmoved(s, t) ==
    /\ Len(t) = Len(s)
    /\ \A i \in 1..Len(s) : Unmoved(s[i], t[i])

\* the boxes of t are those of s, each with its size and its y center
SameSizeAndHeight(s, t) ==
    /\ Len(t) = Len(s)
    /\ \A i \in 1..Len(s) :
          /\ t[i].size = s[i].size
          /\ t[i].center[2] = s[i].center[2]

\* a step leaves the base box, the white boxes and the green boxes unmoved,
\* and every blue box its size and its y center
SceneryKept ==
    /\ Unmoved(base, base')
    /\ AllUnmoved(boxes[WHITE], boxes'[WHITE])
    /\ AllUnmoved(boxes[GREEN], boxes'[GREEN])
    /\ SameSizeAndHeight(boxes[BLUE], boxes'[BLUE])

\* a step leaves every box unmoved
BoxesKept ==
    /\ Unmoved(base, base')
    /\ \A t \in 1..4 : AllUnmoved(boxes[t], boxes'[t])

\* pan_start and pan_end write pan_pos and is_panning and nothing else
PanEventKept ==
    ((\E mouse \in Pointers : pan_start(mouse)) \/ pan_end) =>
        /\ BoxesKept
        /\ UNCHANGED <<level, scene, level_number, completed_levels, base, boxes,
                       box_render_order, angle, is_clicking_interactable,
                       scaled_up_red_box, previously_scaled_up_red_box,
                       is_scaling, win>>

\* a step taken while no growth runs, every frame in which pan_world turns
\* the camera among them, leaves every box unmoved
PanFrameKept == ~is_scaling => BoxesKept

\* C31: no event or frame ever changes the size, center, is_moving or
\* movement of a white box, a green box or the base box, nor the size or y
\* center of a blue box; panning (pan_start, pan_world, pan_end) changes
\* only angle, pan_pos and is_panning and never any box's size, center or
\* movement state.
C31_SceneryNeverChanges ==
    [][SceneryKept /\ PanEventKept /\ PanFrameKept]_vars

\* the camera has been panned away while the red box, with a white box
\* beside it, pushes a blue box that has left its cell
C31_PannedWhilePushing ==
    /\ is_panning
    /\ angle # InitialAngle
    /\ is_scaling
    /\ Len(boxes[WHITE]) > 0
    /\ Len(boxes[GREEN]) > 0
    /\ \E b \in 1..Len(BlueBoxes) :
          /\ BlueBoxes[b].is_moving
          /\ BlueBoxes[b].center # BlueBoxesBuilt[b].center

====
